---- MODULE Spec2Model ----
(***************************************************************************)
(* A model of pulsar's autoreload subsystem (pulsar/utils/autoreload.py):  *)
(* the restart supervisor and the entry point, the stat (poll) reloader,   *)
(* the watchdog (event) reloader and the common-root reduction.            *)
(*                                                                         *)
(* Paths are sequences of one-character strings, so that split, join,      *)
(* dirname, startswith and endswith are computed as Python computes them.  *)
(***************************************************************************)
EXTENDS Integers, Sequences, FiniteSets, TLC

VARIABLES
    \* ---- _find_common_roots (one invocation)
    rootsIn,        \* the argument `paths`
    rootsOrder,     \* what is left of sorted(paths, key=len, reverse=True)
    trie,           \* the dict `root`, as the set of its nodes (chunk sequences)
    rv,             \* the result set
    rootsPc,        \* "sort" | "insert" | "done"
    \* ---- the entry point start() and Reloader.restart_with_reloader
    procs,          \* the chain of processes: procs[1] is the invocation from
                    \* the command line, procs[i+1] the child procs[i] waits for
    \* ---- a reloader in the supervised child
    kind,           \* "stat" | "watchdog": the class of the reloader
    startVia,       \* "entry": started by start(), "method": by its own start()
    extra_files,    \* Reloader.extra_files
    intervalArg,    \* history: the interval argument, <<>> (None) or <<n>>
    interval,       \* Reloader.interval
    loopClosed,     \* self._loop.is_closed()
    scheduled,      \* a call_later(interval, run) is pending
    direct,         \* the first run(), called directly and not by the loop, is
                    \* still to come or executing
    pc,             \* "new" | "observer" | "idle" | "scan" | "publish" | "exited"
    exitCode,       \* <<>>, or <<c>> once sys.exit(c) was called
    last,           \* history: the latest operation and what it did
    \* ---- StatReloader
    fs,             \* the file system: <<>> (stat fails) or <<mtime>> per file
    mtimes,         \* StatReloader.mtimes: <<>> (no entry) or <<mtime>> per file
    scan,           \* what is left of chain(_iter_module_files(), extra_files)
    tickBaselined,  \* history: the files baselined by the current run()
    triggers,       \* history: calls of trigger_reload made by StatReloader.run
    statFailed,     \* history: the files whose latest os.stat raised OSError
    \* ---- WatchdogReloader
    watches,        \* WatchdogReloader.watches
    observable_paths, \* WatchdogReloader.observable_paths
    should_reload,  \* WatchdogReloader.should_reload
    observerStarted, \* observer.start() was called
    observerWatches, \* the watches scheduled with the observer
    paths,          \* the local `paths` of a run() that has not yet published it
    everFailed      \* history: the paths whose observer.schedule ever raised OSError

rootsVars == <<rootsIn, rootsOrder, trie, rv, rootsPc>>
supVars == <<procs>>
relVars == <<kind, startVia, extra_files, intervalArg, interval, loopClosed, scheduled, direct, pc, exitCode, last>>
statVars == <<fs, mtimes, scan, tickBaselined, triggers, statFailed>>
dogVars == <<watches, observable_paths, should_reload, observerStarted, observerWatches, paths,
            everFailed>>
detVars == <<relVars, statVars, dogVars>>

vars == <<rootsIn, rootsOrder, trie, rv, rootsPc, procs, relVars, statVars, dogVars>>

\* Each part of the program is checked on its own; these hold the variables
\* of the parts that are not running.
IdleRoots ==
    /\ rootsIn = {}
    /\ rootsOrder = <<>>
    /\ trie = {}
    /\ rv = {}
    /\ rootsPc = "idle"

IdleSup == procs = <<>>

IdleStat ==
    /\ fs = <<>>
    /\ mtimes = <<>>
    /\ scan = <<>>
    /\ tickBaselined = {}
    /\ triggers = 0
    /\ statFailed = {}

IdleDog ==
    /\ watches = <<>>
    /\ observable_paths = {}
    /\ should_reload = FALSE
    /\ observerStarted = FALSE
    /\ observerWatches = {}
    /\ paths = {}
    /\ everFailed = {}

IdleDet ==
    /\ kind = "none"
    /\ startVia = "none"
    /\ extra_files = {}
    /\ intervalArg = <<>>
    /\ interval = 0
    /\ loopClosed = FALSE
    /\ scheduled = FALSE
    /\ direct = FALSE
    /\ pc = "none"
    /\ exitCode = <<>>
    /\ last = [op |-> "none"]
    /\ IdleStat
    /\ IdleDog

(***************************************************************************)
(* Python string operations on character sequences                         *)
(***************************************************************************)
Sep == "/"

RECURSIVE SplitAcc(_, _, _, _, _)
SplitAcc(s, sep, i, cur, acc) ==
    IF i > Len(s) THEN Append(acc, cur)
    ELSE IF s[i] = sep THEN SplitAcc(s, sep, i + 1, <<>>, Append(acc, cur))
    ELSE SplitAcc(s, sep, i + 1, Append(cur, s[i]), acc)

\* str.split(sep): "/a/b" -> ['', 'a', 'b'], "/" -> ['', ''], "" -> ['']
Split(s, sep) == SplitAcc(s, sep, 1, <<>>, <<>>)

RECURSIVE Join(_, _)
\* sep.join(chunks)
Join(chunks, sep) ==
    IF chunks = <<>> THEN <<>>
    ELSE IF Len(chunks) = 1 THEN chunks[1]
    ELSE chunks[1] \o <<sep>> \o Join(Tail(chunks), sep)

\* s.startswith(prefix)
StartsWith(s, prefix) ==
    /\ Len(prefix) <= Len(s)
    /\ SubSeq(s, 1, Len(prefix)) = prefix

\* s.endswith(suffix)
EndsWith(s, suffix) ==
    /\ Len(suffix) <= Len(s)
    /\ SubSeq(s, Len(s) - Len(suffix) + 1, Len(s)) = suffix

IsPrefix(a, b) == Len(a) <= Len(b) /\ SubSeq(b, 1, Len(a)) = a

(***************************************************************************)
(* What "covers" and "ancestor" mean for directories                       *)
(***************************************************************************)
\* The directory names along a path ("/" has none).
Comps(p) == SelectSeq(Split(p, Sep), LAMBDA c : c # <<>>)

\* p is d or lies under d in the directory tree.
Under(p, d) == IsPrefix(Comps(d), Comps(p))

IsAncestor(d, p) == Under(p, d) /\ Comps(d) # Comps(p)

(***************************************************************************)
(* Paths of the model                                                      *)
(***************************************************************************)
RootDir == <<"/">>
DirA    == <<"/", "a">>
DirAB   == <<"/", "a", "/", "b">>
DirAx   == <<"/", "a", "b">>
DirC    == <<"/", "c">>
DirABC  == <<"/", "a", "/", "b", "/", "c">>

\* The paths _find_common_roots is tried on.
RootsUniverse == {RootDir, DirA, DirAB, DirAx, DirC, DirABC}

\* At most this many paths in one call of _find_common_roots.
MaxPaths == 3


(***************************************************************************)
(* The entry point start() and the restart supervisor                      *)
(***************************************************************************)
EXIT_CODE == 5
PULSAR_RUN_MAIN == "PULSAR_RUN_MAIN"

\* os.environ.get(name) of an unset variable.
None == "<None>"

\* An environment is a set of <<name, value>> pairs, one per name.
EnvHas(env, name) == \E p \in env : p[1] = name

\* os.environ.get(name)
EnvGet(env, name) ==
    IF EnvHas(env, name) THEN (CHOOSE p \in env : p[1] = name)[2] ELSE None

\* env[name] = value
EnvSet(env, name, value) == { p \in env : p[1] # name } \cup { <<name, value>> }

\* The environments the program is launched in: the marker unset, or set to
\* some value by whoever launched it.
BaseEnv == { <<"PATH", "/usr/bin">> }
MarkerValues == { "true", "1", "" }
LaunchEnvs == { BaseEnv } \cup { EnvSet(BaseEnv, PULSAR_RUN_MAIN, v) : v \in MarkerValues }

\* The exit codes of a child: the sentinel, success, and failures.
ChildExitCodes == { 0, 1, EXIT_CODE }

\* No supervisor of the model spawns more often than this.
MaxSpawns == 4
\* No chain of processes of the model is longer than this.
MaxDepth == 3

NewProc(env) ==
    [ environ |-> env,      \* os.environ of the process
      pc      |-> "entry",  \* "entry" | "run" | "loop" | "wait" | "interrupted" | "exited"
      role    |-> "none",   \* what start() chose: "detector" | "supervisor"
      spawns  |-> 0,        \* calls of subprocess.call
      codes   |-> <<>>,     \* the exit codes subprocess.call returned
      returned |-> <<>>,    \* <<c>> once restart_with_reloader has returned c
      result  |-> <<>> ]    \* <<c>> once the process has exited with code c

InitSup ==
    /\ IdleRoots
    /\ IdleDet
    /\ procs \in { <<NewProc(e)>> : e \in LaunchEnvs }

\* The innermost process: every other one of the chain blocks in subprocess.call.
Cur == Len(procs)

\* start(): os.environ.get(PULSAR_RUN_MAIN) == "true"
IsSupervisedChild(env) == EnvGet(env, PULSAR_RUN_MAIN) = "true"

\* start(): run the reloader here, or become the supervisor.
Entry ==
    /\ Cur >= 1
    /\ procs[Cur].pc = "entry"
    /\ procs' = [procs EXCEPT ![Cur] =
                    IF IsSupervisedChild(@.environ)
                    THEN [@ EXCEPT !.pc = "run", !.role = "detector"]
                    ELSE [@ EXCEPT !.pc = "loop", !.role = "supervisor"]]
    /\ UNCHANGED <<rootsVars, detVars>>

\* A child environment with a marker that is truthy but not 'true'.
NewEnvironTruthy(env) == EnvSet(env, PULSAR_RUN_MAIN, "1")

\* restart_with_reloader: new_environ = os.environ.copy();
\* new_environ[PULSAR_RUN_MAIN] = 'true'
NewEnviron(env) == EnvSet(env, PULSAR_RUN_MAIN, "true")

\* restart_with_reloader: subprocess.call(args, env=new_environ) starts the child
\* and blocks.
Spawn ==
    /\ Cur >= 1
    /\ Cur < MaxDepth
    /\ procs[Cur].pc = "loop"
    /\ procs[Cur].spawns < MaxSpawns
    /\ procs' = Append([procs EXCEPT ![Cur] = [@ EXCEPT !.pc = "wait", !.spawns = @ + 1]],
                       NewProc(NewEnviron(procs[Cur].environ)))
    /\ UNCHANGED <<rootsVars, detVars>>

\* A process that runs its reloader (or has returned from start() after an
\* interrupt) ends: with the sentinel when the reloader calls exit(), with any
\* other code when the application ends.
ProcExit ==
    /\ Cur >= 1
    /\ procs[Cur].pc \in {"run", "interrupted"}
    /\ \E c \in ChildExitCodes :
          procs' = [procs EXCEPT ![Cur] = [@ EXCEPT !.pc = "exited", !.result = <<c>>]]
    /\ UNCHANGED <<rootsVars, detVars>>

\* A supervisor that restarts on every failure, not only on the sentinel.
IsFinalOnSuccess(exit_code) == exit_code = 0

\* restart_with_reloader: if exit_code != EXIT_CODE: return exit_code
IsFinal(exit_code) == exit_code # EXIT_CODE

\* subprocess.call returns the child's exit code; the supervisor loops on the
\* sentinel and otherwise returns the code, which start() passes to sys.exit.
Reap ==
    /\ Cur >= 2
    /\ procs[Cur].pc = "exited"
    /\ procs[Cur - 1].pc = "wait"
    /\ LET c == procs[Cur].result[1]
       IN  procs' = [SubSeq(procs, 1, Cur - 1) EXCEPT ![Cur - 1] =
                        IF IsFinal(c)
                        THEN [@ EXCEPT !.pc = "exited", !.codes = Append(@, c),
                                        !.returned = <<c>>, !.result = <<c>>]
                        ELSE [@ EXCEPT !.pc = "loop", !.codes = Append(@, c)]]
    /\ UNCHANGED <<rootsVars, detVars>>

\* start(): except KeyboardInterrupt: pass. The interrupt ends the wait (the
\* child is killed) and start() returns without an exit code.
Interrupt ==
    /\ Cur >= 2
    /\ procs[Cur - 1].pc = "wait"
    /\ procs' = [SubSeq(procs, 1, Cur - 1) EXCEPT ![Cur - 1] = [@ EXCEPT !.pc = "interrupted"]]
    /\ UNCHANGED <<rootsVars, detVars>>

NextSup == Entry \/ Spawn \/ ProcExit \/ Reap \/ Interrupt

SpecSup == InitSup /\ [][NextSup]_vars


(***************************************************************************)
(* Claims about the supervisor and the entry point                         *)
(***************************************************************************)
AllSentinel(codes) == \A k \in 1..Len(codes) : codes[k] = EXIT_CODE

\* C1: a supervisor spawns a new child after each exit with the sentinel 5 and
\* only then, stops at the first other exit code and returns it unchanged: with
\* k sentinel exits it has spawned k+1 children, it has one child in flight
\* exactly while it waits, and it never returns 5.
C1_SupervisorLoop ==
    \A i \in 1..Len(procs) :
        LET p == procs[i]
        IN  p.role = "supervisor" =>
              /\ p.returned # <<EXIT_CODE>>
              /\ p.pc = "loop" =>
                    /\ AllSentinel(p.codes)
                    /\ p.spawns = Len(p.codes)
                    /\ Len(procs) = i
                    /\ p.returned = <<>>
              /\ p.pc = "wait" =>
                    /\ AllSentinel(p.codes)
                    /\ p.spawns = Len(p.codes) + 1
                    /\ Len(procs) = i + 1
                    /\ p.returned = <<>>
              /\ p.returned # <<>> =>
                    /\ Len(p.codes) >= 1
                    /\ <<p.codes[Len(p.codes)]>> = p.returned
                    /\ AllSentinel(SubSeq(p.codes, 1, Len(p.codes) - 1))
                    /\ p.spawns = Len(p.codes)
                    /\ Len(procs) = i

\* C1 witness: the child exited 5, 5, 5, 0: four spawns, result 0.
C1_Witness ==
    /\ Len(procs) = 1
    /\ procs[1].codes = <<EXIT_CODE, EXIT_CODE, EXIT_CODE, 0>>
    /\ procs[1].spawns = 4
    /\ procs[1].returned = <<0>>

\* What C2 says of the children, whatever the gate tests: every child has a
\* truthy marker, runs its reloader and spawns nothing, and there are never
\* more than the launcher and one child.
ChildrenNeverSpawn ==
    /\ Len(procs) <= 2
    /\ \A i \in 2..Len(procs) :
          /\ EnvGet(procs[i].environ, PULSAR_RUN_MAIN) \notin {None, ""}
          /\ procs[i].role # "supervisor"
          /\ procs[i].spawns = 0

\* C2 as stated: an invocation that finds the marker present in its environment
\* runs the reloader itself and spawns no child; every child has a truthy
\* marker and never spawns.
C2_MarkerPresentRunsDetector ==
    /\ \A i \in 1..Len(procs) :
          (EnvHas(procs[i].environ, PULSAR_RUN_MAIN) /\ procs[i].pc # "entry") =>
              (procs[i].role = "detector" /\ procs[i].spawns = 0)
    /\ ChildrenNeverSpawn

\* C2 amended: an invocation that finds the marker set to "true" runs the
\* reloader itself and spawns no child, any other invocation (marker unset or
\* set to another value) becomes the supervisor; every child has the marker
\* "true" and never spawns.
C2_MarkerTrueRunsDetector ==
    /\ \A i \in 1..Len(procs) :
          procs[i].pc # "entry" =>
              IF EnvGet(procs[i].environ, PULSAR_RUN_MAIN) = "true"
              THEN procs[i].role = "detector" /\ procs[i].spawns = 0
              ELSE procs[i].role = "supervisor"
    /\ \A i \in 2..Len(procs) : EnvGet(procs[i].environ, PULSAR_RUN_MAIN) = "true"
    /\ ChildrenNeverSpawn

\* C2 witness: after a restart, the second child runs its reloader.
C2_Witness ==
    /\ Len(procs) = 2
    /\ procs[1].spawns = 2
    /\ procs[2].role = "detector"
    /\ procs[2].pc = "run"

(***************************************************************************)
(* _find_common_roots                                                      *)
(***************************************************************************)
\* The orders sorted(paths, key=len, reverse=True) can produce: the set is
\* iterated in an arbitrary order and the sort is stable, so every order of
\* non-increasing chunk count is possible.
SortedOrders(chunkLists) ==
    LET n == Cardinality(chunkLists)
    IN  { o \in [1..n -> chunkLists] :
            /\ \A i, j \in 1..n : i # j => o[i] # o[j]
            /\ \A i, j \in 1..n : i < j => Len(o[i]) >= Len(o[j]) }

\* One iteration of the insertion loop: walk/create the nodes along `chunks`
\* (setdefault), then clear the node reached.
InsertChunks(t, chunks) ==
    LET walked == t \cup { SubSeq(chunks, 1, k) : k \in 1..Len(chunks) }
    IN  { n \in walked : ~(Len(n) > Len(chunks) /\ IsPrefix(chunks, n)) }

\* _walk(root, ()): the path of every node without children; the root itself
\* when the trie is empty.
Walk(t) ==
    IF t = {} THEN { Join(<<>>, Sep) }
    ELSE { Join(n, Sep) :
             n \in { m \in t : ~\E k \in t : Len(k) = Len(m) + 1 /\ IsPrefix(m, k) } }

RECURSIVE InsertAll(_, _)
InsertAll(t, order) ==
    IF order = <<>> THEN t
    ELSE InsertAll(InsertChunks(t, Head(order)), Tail(order))

\* The whole function, for its callers.
FindCommonRoots(pathSet) ==
    LET lists == { Split(p, Sep) : p \in pathSet }
    IN  Walk(InsertAll({}, CHOOSE o \in SortedOrders(lists) : TRUE))

InitRoots ==
    /\ IdleSup
    /\ IdleDet
    /\ rootsIn \in { S \in SUBSET RootsUniverse : Cardinality(S) <= MaxPaths }
    /\ rootsOrder = <<>>
    /\ trie = {}
    /\ rv = {}
    /\ rootsPc = "sort"

\* paths = [x.split(sep) for x in paths]; sorted(paths, key=len, reverse=True)
RootsSplitSort ==
    /\ rootsPc = "sort"
    /\ rootsOrder' \in SortedOrders({ Split(p, Sep) : p \in rootsIn })
    /\ rootsPc' = "insert"
    /\ UNCHANGED <<rootsIn, trie, rv>>
    /\ UNCHANGED <<supVars, detVars>>

RootsInsert ==
    /\ rootsPc = "insert"
    /\ rootsOrder # <<>>
    /\ trie' = InsertChunks(trie, Head(rootsOrder))
    /\ rootsOrder' = Tail(rootsOrder)
    /\ UNCHANGED <<rootsIn, rv, rootsPc>>
    /\ UNCHANGED <<supVars, detVars>>

RootsWalk ==
    /\ rootsPc = "insert"
    /\ rootsOrder = <<>>
    /\ rv' = Walk(trie)
    /\ rootsPc' = "done"
    /\ UNCHANGED <<rootsIn, rootsOrder, trie>>
    /\ UNCHANGED <<supVars, detVars>>

NextRoots == RootsSplitSort \/ RootsInsert \/ RootsWalk

SpecRoots == InitRoots /\ [][NextRoots]_vars


(***************************************************************************)
(* os.path on character sequences                                          *)
(***************************************************************************)
\* s.rfind(c) + 1
RFind(s, c) ==
    LET idx == { i \in 1..Len(s) : s[i] = c }
    IN  IF idx = {} THEN 0 ELSE CHOOSE i \in idx : \A j \in idx : j <= i

RECURSIVE RStrip(_, _)
\* s.rstrip(c)
RStrip(s, c) ==
    IF s # <<>> /\ s[Len(s)] = c THEN RStrip(SubSeq(s, 1, Len(s) - 1), c) ELSE s

AllSlashes(s) == \A i \in 1..Len(s) : s[i] = Sep

\* posixpath.dirname
Dirname(p) ==
    LET head == SubSeq(p, 1, RFind(p, Sep))
    IN  IF head # <<>> /\ ~AllSlashes(head) THEN RStrip(head, Sep) ELSE head

RECURSIVE NormComps(_, _, _)
\* The loop of posixpath.normpath over the components.
NormComps(comps, acc, rooted) ==
    IF comps = <<>> THEN acc
    ELSE LET c == Head(comps)
         IN  IF c = <<>> \/ c = <<".">> THEN NormComps(Tail(comps), acc, rooted)
             ELSE IF \/ c # <<".", ".">>
                     \/ (~rooted /\ acc = <<>>)
                     \/ (acc # <<>> /\ acc[Len(acc)] = <<".", ".">>)
                  THEN NormComps(Tail(comps), Append(acc, c), rooted)
             ELSE IF acc # <<>>
                  THEN NormComps(Tail(comps), SubSeq(acc, 1, Len(acc) - 1), rooted)
             ELSE NormComps(Tail(comps), acc, rooted)

\* posixpath.normpath
Normpath(p) ==
    IF p = <<>> THEN <<".">>
    ELSE LET slashes == IF ~StartsWith(p, <<Sep>>) THEN <<>>
                        ELSE IF StartsWith(p, <<Sep, Sep>>) /\ ~StartsWith(p, <<Sep, Sep, Sep>>)
                             THEN <<Sep, Sep>>
                        ELSE <<Sep>>
             body == slashes \o Join(NormComps(Split(p, Sep), <<>>, slashes # <<>>), Sep)
         IN  IF body = <<>> THEN <<".">> ELSE body

\* The working directory of the process.
Cwd == DirC

\* posixpath.abspath, computed
AbspathOf(p) ==
    IF StartsWith(p, <<Sep>>) THEN Normpath(p) ELSE Normpath(Cwd \o <<Sep>> \o p)

(***************************************************************************)
(* The files and directories of the model                                  *)
(***************************************************************************)
FileM   == <<"/", "a", "/", "m", ".", "p", "y">>
FileMc  == <<"/", "a", "/", "m", ".", "p", "y", "c">>
FileT   == <<"/", "a", "/", "t", ".", "t", "x", "t">>
FileAxM == <<"/", "a", "b", "/", "m", ".", "p", "y">>
FileE   == <<"/", "c", "/", "e", ".", "t", "x", "t">>
RelE    == <<"e", ".", "t", "x", "t">>
FileMo  == <<"/", "a", "/", "m", ".", "p", "y", "o">>

\* What _iter_module_files() can yield.
ModuleFiles == { FileM }
\* The extra_files arguments a reloader is built with: subsets of these.
ExtraArgs == { RelE, FileM }
\* The extra_files arguments a watchdog reloader is built with: subsets of
\* these (a compiled file may be named as an extra file as well).
DogExtraArgs == ExtraArgs \cup { FileMc }
\* The paths of events.
EventFiles == { FileM, FileMc, FileMo, FileT, FileAxM, FileE }

\* Every path os.path.abspath is called on, with its result (computed once).
AbspathArgs ==
    ExtraArgs \cup ModuleFiles \cup EventFiles
        \cup { SubSeq(f, 1, Len(f) - 1) : f \in EventFiles }
AbspathTable == [p \in AbspathArgs |-> AbspathOf(p)] @@ <<>>

\* posixpath.abspath
Abspath(p) == AbspathTable[p]

\* The files os.stat is called on.
StatFiles == ModuleFiles \cup { Abspath(x) : x \in ExtraArgs }

\* Modification times are 1..MaxTime.
MaxTime == 2
\* _iter_module_files() yields at most this many files (the same file more than
\* once when several modules share it, as os.path and posixpath do).
MaxModules == 2

(***************************************************************************)
(* Reloader                                                                *)
(***************************************************************************)
\* Python's `interval or 1`: 1 when interval is None or 0, else interval.
OrOne(ival) == IF ival = <<>> \/ ival[1] = 0 THEN 1 ELSE ival[1]

\* Reloader.__init__: self.interval = interval or 1;
\* self.extra_files = set(os.path.abspath(x) for x in ...)
InitReloader(args, ival) ==
    /\ extra_files = { Abspath(x) : x \in args }
    /\ intervalArg = ival
    /\ interval = OrOne(ival)
    /\ loopClosed = FALSE
    /\ scheduled = FALSE
    /\ direct = TRUE
    /\ pc = "new"
    /\ exitCode = <<>>
    /\ last = [op |-> "init"]

\* A log_reload that does not look at the loop.
LogReloadAlways(closed) == TRUE

\* Reloader.log_reload: logs and returns True unless the loop is closed.
LogReload(closed) == ~closed

\* Reloader.sleep: if not self._loop.is_closed(): self._loop.call_later(...)
Sleep(closed) == ~closed

\* Reloader.sleep: the delay passed to call_later, <<>> when none is made.
SleepDelay(closed, ival) == IF Sleep(closed) THEN <<ival>> ELSE <<>>

\* The loop is closed by its owner. A loop cannot be closed while it runs one of
\* its callbacks, so this happens between the runs the loop makes, or at any
\* point of the first run(), which is called directly.
CloseLoop ==
    /\ pc \in {"new", "observer", "idle", "scan", "publish"}
    /\ pc \in {"scan", "publish"} => direct
    /\ ~loopClosed
    /\ loopClosed' = TRUE
    /\ last' = [op |-> "close"]
    /\ UNCHANGED <<kind, startVia, extra_files, intervalArg, interval, scheduled, direct, pc, exitCode>>
    /\ UNCHANGED <<statVars, dogVars, rootsVars, supVars>>

\* run() is entered: called directly by start(), or by the loop for a pending
\* call_later while the loop is open.
RunEntered(first) ==
    \/ pc = first
    \/ pc = "idle" /\ scheduled /\ ~loopClosed

(***************************************************************************)
(* StatReloader                                                            *)
(***************************************************************************)
InitStat ==
    /\ fs = [f \in StatFiles |-> <<1>>]
    /\ mtimes = [f \in StatFiles |-> <<>>]
    /\ scan = <<>>
    /\ tickBaselined = {}
    /\ triggers = 0
    /\ statFailed = {}

\* The sequences of length n over S.
Seqs(S, n) == [1..n -> S]

\* The orders a set can be iterated in.
Orders(S) == { o \in Seqs(S, Cardinality(S)) : \A i, j \in 1..Cardinality(S) : i # j => o[i] # o[j] }

\* A scan that leaves the extra files out.
ModulesOnly(mods, extras) == mods

\* chain(_iter_module_files(), self.extra_files)
ScanList(mods, extras) == mods \o extras

\* StatReloader.run, the loop header: chain(_iter_module_files(), self.extra_files)
StatRunBegin ==
    /\ kind = "stat"
    /\ RunEntered("new")
    /\ pc' = "scan"
    /\ scheduled' = FALSE
    /\ tickBaselined' = {}
    /\ last' = [op |-> "begin"]
    /\ \E n \in 1..MaxModules : \E mods \in Seqs(ModuleFiles, n) : \E extras \in Orders(extra_files) :
          scan' = ScanList(mods, extras)
    /\ UNCHANGED <<kind, startVia, extra_files, intervalArg, interval, loopClosed, direct, exitCode>>
    /\ UNCHANGED <<fs, mtimes, triggers, statFailed>>
    /\ UNCHANGED <<dogVars, rootsVars, supVars>>

\* A comparison that also fires on an unchanged time.
ChangedOrSame(mtime, old_time) == mtime >= old_time

\* StatReloader.run: elif mtime > old_time
Changed(mtime, old_time) == mtime > old_time

\* What one iteration of the loop does with a file: "skip" (stat failed),
\* "baseline", "trigger" or "same".
StatOutcome(stat, old_time) ==
    IF stat = <<>> THEN "skip"
    ELSE IF old_time = <<>> THEN "baseline"
    ELSE IF Changed(stat[1], old_time[1]) THEN "trigger"
    ELSE "same"

\* A loop body that calls trigger_reload and goes on with the next file.
NeverReturns(out) == FALSE

\* StatReloader.run: return self.trigger_reload(filename)
Returns(out) == out = "trigger"

\* A loop body that drops the entry of a file whose stat fails.
AfterStatForget(m, filename, stat, out) ==
    IF out = "baseline" THEN [m EXCEPT ![filename] = stat]
    ELSE IF out = "skip" THEN [m EXCEPT ![filename] = <<>>]
    ELSE m

\* StatReloader.run: self.mtimes after one iteration; the only assignment is
\* self.mtimes[filename] = mtime, when there was no entry.
AfterStat(m, filename, stat, out) ==
    IF out = "baseline" THEN [m EXCEPT ![filename] = stat] ELSE m

\* StatReloader.run, one iteration of the loop.
StatStep ==
    /\ kind = "stat"
    /\ pc = "scan"
    /\ scan # <<>>
    /\ LET filename == Head(scan)
           out == StatOutcome(fs[filename], mtimes[filename])
           exits == out = "trigger" /\ LogReload(loopClosed)
       IN  /\ mtimes' = AfterStat(mtimes, filename, fs[filename], out)
           /\ statFailed' = IF out = "skip" THEN statFailed \cup {filename}
                            ELSE statFailed \ {filename}
           /\ tickBaselined' = IF out = "baseline" THEN tickBaselined \cup {filename}
                               ELSE tickBaselined
           /\ triggers' = IF out = "trigger" THEN triggers + 1 ELSE triggers
           /\ exitCode' = IF exits THEN <<EXIT_CODE>> ELSE exitCode
           /\ pc' = IF exits THEN "exited" ELSE IF Returns(out) THEN "idle" ELSE "scan"
           /\ scan' = IF exits \/ Returns(out) THEN <<>> ELSE Tail(scan)
           /\ direct' = IF exits \/ Returns(out) THEN FALSE ELSE direct
           /\ last' = [op |-> "stat", file |-> filename, out |-> out, rest |-> Tail(scan),
                       failedBefore |-> filename \in statFailed,
                       logged |-> IF exits THEN <<Abspath(filename)>> ELSE <<>>]
    /\ UNCHANGED <<kind, startVia, extra_files, intervalArg, interval, loopClosed, scheduled, fs>>
    /\ UNCHANGED <<dogVars, rootsVars, supVars>>

\* StatReloader.run: self.sleep() after the loop.
StatRunEnd ==
    /\ kind = "stat"
    /\ pc = "scan"
    /\ scan = <<>>
    /\ scheduled' = Sleep(loopClosed)
    /\ pc' = "idle"
    /\ direct' = FALSE
    /\ last' = [op |-> "end", delay |-> SleepDelay(loopClosed, interval)]
    /\ UNCHANGED <<kind, startVia, extra_files, intervalArg, interval, loopClosed, exitCode>>
    /\ UNCHANGED <<statVars, dogVars, rootsVars, supVars>>

\* The world writes a file: its modification time becomes any other time.
Touch ==
    /\ kind = "stat"
    /\ pc # "exited"
    /\ \E f \in StatFiles : \E t \in 1..MaxTime :
          /\ fs[f] # <<t>>
          /\ fs' = [fs EXCEPT ![f] = <<t>>]
    /\ last' = [op |-> "env"]
    /\ UNCHANGED <<kind, startVia, extra_files, intervalArg, interval, loopClosed, scheduled, direct, pc, exitCode>>
    /\ UNCHANGED <<mtimes, scan, tickBaselined, triggers, statFailed>>
    /\ UNCHANGED <<dogVars, rootsVars, supVars>>

\* The world removes a file: os.stat raises OSError.
Remove ==
    /\ kind = "stat"
    /\ pc # "exited"
    /\ \E f \in StatFiles :
          /\ fs[f] # <<>>
          /\ fs' = [fs EXCEPT ![f] = <<>>]
    /\ last' = [op |-> "env"]
    /\ UNCHANGED <<kind, startVia, extra_files, intervalArg, interval, loopClosed, scheduled, direct, pc, exitCode>>
    /\ UNCHANGED <<mtimes, scan, tickBaselined, triggers, statFailed>>
    /\ UNCHANGED <<dogVars, rootsVars, supVars>>


(***************************************************************************)
(* WatchdogReloader                                                        *)
(***************************************************************************)
\* The directories of sys.path and of the loaded modules: some of these, and
\* at least the directory of this module itself.
SysDirs == { DirA, DirAB, DirAx }

\* The events the observer delivers: created, modified and deleted events
\* carry one path, a moved event carries src_path and dest_path.
Events == { <<f>> : f \in EventFiles } \cup { <<FileT, FileM>>, <<FileMc, FileT>> }

\* observer.schedule(handler, path, recursive=True) returns a watch of path.
Watch(path) == <<path>>
\* self.watches[path] = None
NoWatch == <<>>

InitDog ==
    /\ watches = <<>>
    /\ observable_paths = {}
    /\ should_reload = FALSE
    /\ observerStarted = FALSE
    /\ observerWatches = {}
    /\ paths = {}
    /\ everFailed = {}

\* Every set _find_observable_paths collects, with the result of
\* _find_common_roots for it (computed once).
ObservableDirs == SysDirs \cup { Dirname(Abspath(x)) : x \in ExtraArgs }
CommonRootsTable == [S \in SUBSET ObservableDirs |-> FindCommonRoots(S)] @@ <<>>

\* _find_observable_paths for every sys.path and every extra_files of a
\* reloader (computed once).
ObservablePathsTable ==
    [args \in (SUBSET SysDirs) \X (SUBSET { Abspath(x) : x \in DogExtraArgs }) |->
        CommonRootsTable[args[1] \cup { Dirname(Abspath(f)) : f \in args[2] }]] @@ <<>>

\* _find_observable_paths(extra_files)
FindObservablePaths(sys, extra) == ObservablePathsTable[<<sys, extra>>]

\* WatchdogReloader.start: self.observer.start(), before self.run()
DogStart ==
    /\ kind = "watchdog"
    /\ startVia = "method"
    /\ pc = "new"
    /\ observerStarted' = TRUE
    /\ pc' = "observer"
    /\ last' = [op |-> "start"]
    /\ UNCHANGED <<kind, startVia, extra_files, intervalArg, interval, loopClosed, scheduled, direct, exitCode>>
    /\ UNCHANGED <<watches, observable_paths, should_reload, observerWatches, paths, everFailed>>
    /\ UNCHANGED <<statVars, rootsVars, supVars>>

\* A test that takes a None placeholder for a missing entry.
NotWatched(path, w) == path \notin DOMAIN w \/ w[path] = NoWatch

\* WatchdogReloader.run: if path not in self.watches
NeedsSchedule(path, w) == path \notin DOMAIN w

\* The first run() of a reloader: start() calls reloader.run(), and
\* WatchdogReloader.start calls self.run() after the observer was started.
FirstRunAt == IF startVia = "entry" THEN "new" ELSE "observer"

\* WatchdogReloader.run: if self.should_reload: self.exit()
DogRunExit ==
    /\ kind = "watchdog"
    /\ RunEntered(FirstRunAt)
    /\ should_reload
    /\ scheduled' = FALSE
    /\ exitCode' = <<EXIT_CODE>>
    /\ pc' = "exited"
    /\ direct' = FALSE
    /\ last' = [op |-> "run", branch |-> "exit"]
    /\ UNCHANGED <<kind, startVia, extra_files, intervalArg, interval, loopClosed>>
    /\ UNCHANGED <<dogVars, statVars, rootsVars, supVars>>

\* A run() that exits when it finds the loop closed.
DogRunClosedExits ==
    /\ kind = "watchdog"
    /\ RunEntered(FirstRunAt)
    /\ ~should_reload
    /\ loopClosed
    /\ scheduled' = FALSE
    /\ exitCode' = <<EXIT_CODE>>
    /\ pc' = "exited"
    /\ direct' = FALSE
    /\ last' = [op |-> "run", branch |-> "closed"]
    /\ UNCHANGED <<kind, startVia, extra_files, intervalArg, interval, loopClosed>>
    /\ UNCHANGED <<dogVars, statVars, rootsVars, supVars>>

\* WatchdogReloader.run: if self.is_closed(): return
DogRunClosed ==
    /\ kind = "watchdog"
    /\ RunEntered(FirstRunAt)
    /\ ~should_reload
    /\ loopClosed
    /\ scheduled' = FALSE
    /\ pc' = "idle"
    /\ direct' = FALSE
    /\ last' = [op |-> "run", branch |-> "closed"]
    /\ UNCHANGED <<kind, startVia, extra_files, intervalArg, interval, loopClosed, exitCode>>
    /\ UNCHANGED <<dogVars, statVars, rootsVars, supVars>>

\* A second loop that leaves the None placeholders in the table.
ToDeleteWatched(w, wanted) == { p \in DOMAIN w \ wanted : w[p] # NoWatch }

\* WatchdogReloader.run: to_delete = set(self.watches), less every wanted path
\* (to_delete.discard(path) for path in paths)
ToDelete(w, wanted) == DOMAIN w \ wanted

\* A second loop that pops the entries and unschedules nothing.
UnscheduledNone(w, to_delete) == {}

\* WatchdogReloader.run, its second loop: the watches it unschedules, those of
\* the popped entries that are not None.
Unscheduled(w, to_delete) == { w[q] : q \in { r \in to_delete : w[r] # NoWatch } }

\* WatchdogReloader.run, its two loops over the watches: schedule the new roots
\* (oserr: those whose schedule raises OSError), then pop the entries of the
\* roots that are no longer wanted and unschedule those that hold a watch.
DogRunWatch ==
    /\ kind = "watchdog"
    /\ RunEntered(FirstRunAt)
    /\ ~should_reload
    /\ ~loopClosed
    /\ scheduled' = FALSE
    /\ pc' = "publish"
    /\ UNCHANGED <<kind, startVia, extra_files, intervalArg, interval, loopClosed, exitCode, direct>>
    /\ UNCHANGED <<observable_paths, should_reload, observerStarted>>
    /\ UNCHANGED <<statVars, rootsVars, supVars>>
    /\ \E sys \in (SUBSET SysDirs) \ {{}} :
          LET wanted == FindObservablePaths(sys, extra_files)
              new == { p \in wanted : NeedsSchedule(p, watches) }
              to_delete == ToDelete(watches, wanted)
          IN  \E oserr \in SUBSET new :
                /\ paths' = wanted
                /\ everFailed' = everFailed \cup oserr
                /\ watches' = [p \in (DOMAIN watches \cup new) \ to_delete |->
                                 IF p \in oserr THEN NoWatch
                                 ELSE IF p \in new THEN Watch(p)
                                 ELSE watches[p]]
                /\ observerWatches' =
                      (observerWatches \cup { Watch(p) : p \in new \ oserr })
                          \ Unscheduled(watches, to_delete)
                /\ last' = [op |-> "run", branch |-> "watch", attempted |-> new,
                            failed |-> oserr, unscheduled |-> to_delete,
                            retried |-> new \cap everFailed]

\* WatchdogReloader.run, from its entry to the end of its watch loops.
DogRun == DogRunExit \/ DogRunClosed \/ DogRunWatch

\* WatchdogReloader.run, its end: self.observable_paths = paths; self.sleep()
DogPublish ==
    /\ kind = "watchdog"
    /\ pc = "publish"
    /\ observable_paths' = paths
    /\ scheduled' = Sleep(loopClosed)
    /\ pc' = "idle"
    /\ direct' = FALSE
    /\ last' = [op |-> "publish", delay |-> SleepDelay(loopClosed, interval)]
    /\ UNCHANGED <<kind, startVia, extra_files, intervalArg, interval, loopClosed, exitCode>>
    /\ UNCHANGED <<watches, should_reload, observerStarted, observerWatches, paths, everFailed>>
    /\ UNCHANGED <<statVars, rootsVars, supVars>>

\* dirname.startswith(tuple(self.observable_paths))
StartsWithAny(s, prefixes) == \E r \in prefixes : StartsWith(s, r)

DotPy  == <<".", "p", "y">>
DotPyc == <<".", "p", "y", "c">>
DotPyo == <<".", "p", "y", "o">>

\* A check_modification that reports a compiled file under its own name.
CheckModificationRaw(filename, extra, observed) ==
    (IF filename \in extra THEN <<filename>> ELSE <<>>)
    \o (IF StartsWithAny(Dirname(filename), observed)
        THEN IF EndsWith(filename, DotPyc) \/ EndsWith(filename, DotPyo) \/ EndsWith(filename, DotPy)
             THEN <<filename>>
             ELSE <<>>
        ELSE <<>>)

\* WatchdogReloader.check_modification: the file names it passes to
\* trigger_reload, in order.
CheckModification(filename, extra, observed) ==
    (IF filename \in extra THEN <<filename>> ELSE <<>>)
    \o (IF StartsWithAny(Dirname(filename), observed)
        THEN IF EndsWith(filename, DotPyc) \/ EndsWith(filename, DotPyo)
             THEN <<SubSeq(filename, 1, Len(filename) - 1)>>
             ELSE IF EndsWith(filename, DotPy) THEN <<filename>>
             ELSE <<>>
        ELSE <<>>)

RECURSIVE OnEvent(_, _, _)
\* CustomHandler.on_created/on_modified/on_deleted (one path) and on_moved
\* (src_path, then dest_path).
OnEvent(ev, extra, observed) ==
    IF ev = <<>> THEN <<>>
    ELSE CheckModification(Head(ev), extra, observed) \o OnEvent(Tail(ev), extra, observed)

\* Reloader.trigger_reload, which an event handler must not use: it exits.
ReloaderTriggerReload(closed, st) ==
    IF LogReload(closed) THEN [st EXCEPT !.exit = TRUE] ELSE st

\* A trigger_reload that flips the flag.
TriggerReloadToggle(closed, st) ==
    IF LogReload(closed) THEN [st EXCEPT !.should_reload = ~st.should_reload] ELSE st

\* WatchdogReloader.trigger_reload: if self.log_reload(filename):
\* self.should_reload = True
TriggerReload(closed, st) ==
    IF LogReload(closed) THEN [st EXCEPT !.should_reload = TRUE] ELSE st

RECURSIVE TriggerAll(_, _, _)
TriggerAll(names, closed, st) ==
    IF names = <<>> THEN st
    ELSE TriggerAll(Tail(names), closed, TriggerReload(closed, st))

\* A recursive watch of `root` reports the events of every path under it.
Watched(f) == \E w \in observerWatches : Under(f, w[1])

\* The observer's thread delivers an event of a watched path to CustomHandler.
DogCallback ==
    /\ kind = "watchdog"
    /\ observerStarted
    /\ pc # "exited"
    /\ \E ev \in Events :
          /\ \A i \in 1..Len(ev) : Watched(ev[i])
          /\ LET names == OnEvent(ev, extra_files, observable_paths)
                 st == TriggerAll(names, loopClosed,
                                  [should_reload |-> should_reload, exit |-> FALSE])
             IN  /\ should_reload' = st.should_reload
                 /\ exitCode' = IF st.exit THEN <<EXIT_CODE>> ELSE exitCode
                 /\ pc' = IF st.exit THEN "exited" ELSE pc
                 /\ last' = [op |-> "callback", event |-> ev, requested |-> names,
                             logged |-> IF LogReload(loopClosed)
                                        THEN [i \in 1..Len(names) |-> Abspath(names[i])]
                                        ELSE <<>>]
    /\ UNCHANGED <<kind, startVia, extra_files, intervalArg, interval, loopClosed, scheduled, direct>>
    /\ UNCHANGED <<watches, observable_paths, observerStarted, observerWatches, paths, everFailed>>
    /\ UNCHANGED <<statVars, rootsVars, supVars>>

(***************************************************************************)
(* The supervised child: one reloader, of either class                     *)
(***************************************************************************)
Init ==
    /\ IdleRoots
    /\ IdleSup
    /\ \/ /\ kind = "stat" /\ startVia = "entry" /\ InitStat /\ IdleDog
          /\ \E args \in SUBSET ExtraArgs : InitReloader(args, <<>>)
       \/ /\ kind = "watchdog" /\ startVia \in {"entry", "method"} /\ IdleStat /\ InitDog
          /\ \E args \in SUBSET DogExtraArgs : InitReloader(args, <<>>)

Next ==
    \/ CloseLoop
    \/ StatRunBegin
    \/ StatStep
    \/ StatRunEnd
    \/ Touch
    \/ Remove
    \/ DogStart
    \/ DogRunExit
    \/ DogRunClosed
    \/ DogRunWatch
    \/ DogPublish
    \/ DogCallback

Spec == Init /\ [][Next]_vars

\* The interval arguments a reloader is built with: None and the integers of
\* -MaxInterval..MaxInterval.
MaxInterval == 2
IntervalArgs == { <<>> } \cup { <<n>> : n \in (0 - MaxInterval)..MaxInterval }

\* A reloader of either class built with any interval and no extra files.
InitInterval ==
    /\ IdleRoots
    /\ IdleSup
    /\ \E ival \in IntervalArgs : InitReloader({}, ival)
    /\ \/ kind = "stat" /\ startVia = "entry" /\ InitStat /\ IdleDog
       \/ kind = "watchdog" /\ startVia \in {"entry", "method"} /\ IdleStat /\ InitDog

SpecInterval == InitInterval /\ [][Next]_vars

\* The loop runs its pending call_later callbacks while it is open, and a run()
\* that was entered goes on to its end; the world, the observer and whoever
\* closes the loop owe nothing.
FairSpec ==
    /\ Spec
    /\ WF_vars(StatRunBegin) /\ WF_vars(StatStep) /\ WF_vars(StatRunEnd)
    /\ WF_vars(DogStart) /\ WF_vars(DogRun) /\ WF_vars(DogPublish)


(***************************************************************************)
(* Claims about the reloaders                                              *)
(***************************************************************************)
\* The step is one iteration of StatReloader.run's loop.
IsStatStep == pc = "scan" /\ last'.op = "stat"

\* The file has a baseline and its modification time is greater.
Newer(f) ==
    kind = "stat" /\ fs[f] # <<>> /\ mtimes[f] # <<>> /\ fs[f][1] > mtimes[f][1]

C10_ShortCircuit ==
    /\ [](triggers <= 1)
    /\ [](triggers >= 1 => (scan = <<>> /\ ~scheduled /\ pc \in {"idle", "exited"}))
    /\ [][ triggers >= 1 =>
             /\ last'.op \notin {"stat", "begin", "end"}
             /\ UNCHANGED <<mtimes, tickBaselined, triggers, scan, scheduled, pc>>
         ]_vars

\* C10 witness: a change was detected while paths were left in the scan.
C10_Witness ==
    /\ last.op = "stat"
    /\ last.out = "trigger"
    /\ last.rest # <<>>
    /\ triggers = 1

\* C6: an event handler call changes nothing of the reloader but
\* should_reload, which it may only set; the watchdog reloader's exit happens
\* in run() alone, with the sentinel.
C6_CallbackOnlySetsFlag ==
    [][ /\ last'.op = "callback" =>
              /\ should_reload => should_reload'
              /\ UNCHANGED <<exitCode, pc, scheduled, extra_files>>
              /\ UNCHANGED <<watches, observable_paths, observerWatches, paths>>
        /\ (kind = "watchdog" /\ exitCode' # exitCode) =>
              (last'.op = "run" /\ exitCode' = <<EXIT_CODE>>)
      ]_vars

\* C6 witness: an event handler call has set should_reload while a run() was
\* between its watch loops and its last assignment.
C6_Witness ==
    /\ last.op = "callback"
    /\ last.logged # <<>>
    /\ should_reload
    /\ pc = "publish"
    /\ exitCode = <<>>

\* C7: no run() of the watchdog reloader is entered before its observer was
\* started.
C7_ObserverStartedBeforeRun ==
    (kind = "watchdog" /\ pc \notin {"new", "observer"}) => observerStarted

Range(q) == { q[i] : i \in 1..Len(q) }

\* C8: every scan of the stat reloader holds every extra file and the roots the
\* watchdog reloader wants cover every extra file; an event of an extra file
\* sets should_reload whatever its suffix and whatever is observed (loop open);
\* and a modification of an extra file after its baseline, or an event that set
\* should_reload, leads to the exit with the sentinel unless the loop is closed
\* (or the file is changed back) first.
C8_ExtraFilesMonitored ==
    /\ [](last.op = "begin" => extra_files \subseteq Range(scan))
    /\ []((last.op = "run" /\ last.branch = "watch") =>
             \A f \in extra_files : \E d \in paths : Under(f, d))
    /\ []((last.op = "callback" /\ ~loopClosed /\ Range(last.event) \cap extra_files # {})
             => should_reload)
    /\ \A f \in StatFiles :
          (f \in extra_files /\ Newer(f))
              ~> (exitCode = <<EXIT_CODE>> \/ loopClosed \/ ~Newer(f))
    /\ (kind = "watchdog" /\ should_reload) ~> (exitCode = <<EXIT_CODE>> \/ loopClosed)

\* C8 witness: an event of an extra file that no module snapshot reports, that
\* has no source suffix and lies under no observed path, has set should_reload.
C8_Witness ==
    /\ last.op = "callback"
    /\ last.event = <<FileE>>
    /\ FileE \in extra_files
    /\ ~StartsWithAny(Dirname(FileE), observable_paths)
    /\ last.logged = <<FileE>>
    /\ should_reload

\* The step is a run() of the watchdog reloader that reached its watch loops.
IsWatchRun == last'.op = "run" /\ last'.branch = "watch" /\ pc # "publish"

\* C9: in a run() of the watchdog reloader, schedule is called for exactly the
\* wanted roots that have no entry in the table; each one whose schedule raises
\* OSError gets the None placeholder, every other one is registered in that
\* same run(); an entry of a root that is still wanted, the None placeholder
\* included, is kept and schedule is not called for it again.
C9_FailureIsolatedNotRetried ==
    [][ IsWatchRun =>
          /\ last'.failed \subseteq last'.attempted
          /\ last'.attempted = paths' \ DOMAIN watches
          /\ DOMAIN watches' = paths'
          /\ \A p \in last'.attempted :
                IF p \in last'.failed
                THEN watches'[p] = NoWatch /\ Watch(p) \notin observerWatches'
                ELSE watches'[p] = Watch(p) /\ Watch(p) \in observerWatches'
          /\ \A p \in paths' \cap DOMAIN watches :
                /\ p \notin last'.attempted
                /\ watches'[p] = watches[p]
      ]_vars

\* C9 witness: a run() in which a root whose registration failed in an earlier
\* run() is still wanted and is left alone, one new root fails and another new
\* root is registered.
C9_Witness ==
    /\ last.op = "run"
    /\ last.branch = "watch"
    /\ \E p \in paths : watches[p] = NoWatch /\ p \notin last.attempted
    /\ last.failed # {}
    /\ last.attempted \ last.failed # {}

(***************************************************************************)
(* Claims about the event handler                                          *)
(***************************************************************************)
IsCompiled(f) == EndsWith(f, DotPyc) \/ EndsWith(f, DotPyo)
IsSource(f) == EndsWith(f, DotPy)
SourceOf(f) == SubSeq(f, 1, Len(f) - 1)

\* The event handler was called for an event with path f, a compiled file whose
\* directory starts with an observed path.
CompiledEventUnderRoot(f) ==
    /\ last.op = "callback"
    /\ f \in Range(last.event)
    /\ IsCompiled(f)
    /\ StartsWithAny(Dirname(f), observable_paths)

\* C11 as stated: an event of a .pyc or .pyo path whose directory is under an
\* observed path requests a reload (sets should_reload), and the change is
\* reported against the source path and not against the compiled path.
C11_CompiledReportedAsSource ==
    \A f \in EventFiles :
        CompiledEventUnderRoot(f) =>
            /\ should_reload
            /\ SourceOf(f) \in Range(last.logged)
            /\ f \notin Range(last.logged)

\* C11 amended: for such an event trigger_reload is called with the source
\* path, and with the compiled path only when the compiled path is itself an
\* extra file; while the loop is open each call sets should_reload and logs the
\* absolute path it was called with; once the loop is closed the calls set
\* and log nothing.
C11_CompiledRequestsSource ==
    \A f \in EventFiles :
        CompiledEventUnderRoot(f) =>
            /\ SourceOf(f) \in Range(last.requested)
            /\ f \in Range(last.requested) <=> f \in extra_files
            /\ last.event = <<f>> =>
                  last.requested = (IF f \in extra_files THEN <<f>> ELSE <<>>) \o <<SourceOf(f)>>
            /\ ~loopClosed =>
                  /\ should_reload
                  /\ last.logged = [i \in 1..Len(last.requested) |-> Abspath(last.requested[i])]
            /\ loopClosed => last.logged = <<>>

\* C11 witness: an event of /a/m.pyc, not an extra file, under the observed
\* path /a: the reload is logged for /a/m.py and should_reload is set.
C11_Witness ==
    /\ CompiledEventUnderRoot(FileMc)
    /\ last.event = <<FileMc>>
    /\ FileMc \notin extra_files
    /\ last.logged = <<FileM>>
    /\ should_reload

\* The step is a call of the event handler that sets should_reload.
CallbackSetsFlag == last'.op = "callback" /\ ~should_reload /\ should_reload'

\* The directory of f is an observed path or lies under one in the tree.
UnderObserved(f, observed) == \E d \in observed : Under(Dirname(f), d)

\* C12: an event handler call for paths that are not extra files sets
\* should_reload only if one of the paths has a .py, .pyc or .pyo suffix and
\* its directory is an observed path or lies under one; an event in a
\* directory under no observed path, or while observable_paths is empty,
\* never sets it.
C12_OnlyUnderObservedRoots ==
    [][ (CallbackSetsFlag /\ Range(last'.event) \cap extra_files = {}) =>
            \E f \in Range(last'.event) :
                /\ UnderObserved(f, observable_paths)
                /\ IsCompiled(f) \/ IsSource(f)
      ]_vars

(***************************************************************************)
(* Claims about the stat reloader and the loop                             *)
(***************************************************************************)
\* C13 as stated: a stat that fails skips the path without triggering, and the
\* first successful stat of a path after a failed one records a baseline and
\* triggers nothing, also when the path had a baseline before.
C13_ReappearedIsRebaselined ==
    [][ IsStatStep =>
          LET f == Head(scan)
          IN  /\ fs[f] = <<>> =>
                    (last'.out = "skip" /\ triggers' = triggers /\ exitCode' = exitCode)
              /\ (f \in statFailed /\ fs[f] # <<>>) =>
                    /\ last'.out # "trigger"
                    /\ mtimes'[f] = fs[f]
                    /\ triggers' = triggers
                    /\ exitCode' = exitCode
      ]_vars

\* C13 amended: a stat that fails skips the path: nothing is triggered and
\* self.mtimes, the path's entry included, is left as it is; the first
\* successful stat after that records a baseline and triggers nothing when the
\* path has no entry, and is compared with the entry the path kept when it has
\* one: a strictly greater time triggers, any other time changes nothing.
C13_FailedStatKeepsBaseline ==
    [][ IsStatStep =>
          LET f == Head(scan)
          IN  /\ fs[f] = <<>> =>
                    /\ last'.out = "skip"
                    /\ f \in statFailed'
                    /\ UNCHANGED <<mtimes, triggers, exitCode>>
                    /\ pc' = "scan"
              /\ (f \in statFailed /\ fs[f] # <<>> /\ mtimes[f] = <<>>) =>
                    /\ last'.out = "baseline"
                    /\ mtimes' = [mtimes EXCEPT ![f] = fs[f]]
                    /\ UNCHANGED <<triggers, exitCode>>
              /\ (f \in statFailed /\ fs[f] # <<>> /\ mtimes[f] # <<>>) =>
                    /\ mtimes' = mtimes
                    /\ (last'.out = "trigger") <=> (fs[f][1] > mtimes[f][1])
                    /\ triggers' = triggers + (IF fs[f][1] > mtimes[f][1] THEN 1 ELSE 0)
                    /\ (fs[f][1] > mtimes[f][1] /\ ~loopClosed) => exitCode' = <<EXIT_CODE>>
      ]_vars

\* C13 witness: a path with a baseline disappeared, its stat failed, it came
\* back with a greater time and its next stat triggered the reload.
C13_Witness ==
    /\ last.op = "stat"
    /\ last.failedBefore
    /\ last.out = "trigger"
    /\ exitCode = <<EXIT_CODE>>

\* C15: the delay of every call_later is the interval argument when that is
\* positive and 1 when it is non-positive or absent; it is always positive.
C15_DelayPositive ==
    (last.op \in {"end", "publish"} /\ last.delay # <<>>) =>
        /\ last.delay[1] > 0
        /\ last.delay[1] = (IF intervalArg # <<>> /\ intervalArg[1] > 0 THEN intervalArg[1] ELSE 1)

\* C17: once the loop is closed the stat reloader never exits and never makes
\* another call_later, and the loop enters no further run(); a run() that is
\* executing when the loop is closed and finds a modification time greater
\* than the baseline returns without exiting.
C17_ClosedLoopStops ==
    [][ (kind = "stat" /\ loopClosed) =>
          /\ exitCode' = exitCode
          /\ pc' # "exited"
          /\ scheduled' => scheduled
          /\ last'.op = "end" => last'.delay = <<>>
          /\ last'.op = "begin" => pc = "new"
          /\ (last'.op = "stat" /\ last'.out = "trigger") =>
                (pc' = "idle" /\ scan' = <<>> /\ last'.logged = <<>>)
      ]_vars

\* C17 witness: with the loop closed, a run() found a modification time
\* greater than the baseline and returned: no exit, nothing scheduled.
C17_Witness ==
    /\ kind = "stat"
    /\ loopClosed
    /\ last.op = "stat"
    /\ last.out = "trigger"
    /\ exitCode = <<>>
    /\ pc = "idle"
    /\ ~scheduled

(***************************************************************************)
(* Claims about the watch table                                            *)
(***************************************************************************)
\* C14 as stated: once observer.schedule has raised OSError for a path, no
\* later run() of the same process calls schedule for that path again,
\* whatever the wanted paths of the later runs are.
C14_FailedNeverRetried ==
    [][ IsWatchRun => last'.attempted \cap everFailed = {} ]_vars

\* C14 amended: the None placeholder of a path whose schedule failed is kept,
\* and schedule is not called for the path, in every run() that still wants
\* the path; the first run() that does not want the path drops its entry, and
\* a later run() that wants it again calls schedule for it again.
C14_PlaceholderWhileWanted ==
    [][ IsWatchRun =>
          /\ \A p \in DOMAIN watches :
                IF p \in paths'
                THEN p \notin last'.attempted /\ watches'[p] = watches[p]
                ELSE p \notin DOMAIN watches'
          /\ \A p \in everFailed :
                p \in last'.attempted <=> (p \in paths' /\ p \notin DOMAIN watches)
          /\ last'.retried = last'.attempted \cap everFailed
      ]_vars

\* C14 witness: a run() has called schedule again for a path whose schedule
\* had failed in an earlier run().
C14_Witness ==
    /\ last.op = "run"
    /\ last.branch = "watch"
    /\ last.retried # {}

(***************************************************************************)
(* Claims about the runs of the watchdog reloader                          *)
(***************************************************************************)
\* The step enters WatchdogReloader.run.
IsDogRunEntry == kind = "watchdog" /\ last'.op = "run"

C18_FlagWriteOnceConsumed ==
    /\ [][ should_reload => should_reload' ]_vars
    /\ [][ (IsDogRunEntry /\ should_reload) =>
              (exitCode' = <<EXIT_CODE>> /\ pc' = "exited" /\ last'.branch = "exit") ]_vars
    /\ [][ (kind = "watchdog" /\ exitCode' # exitCode) => should_reload ]_vars
    /\ should_reload ~> (exitCode = <<EXIT_CODE>> \/ loopClosed)

\* C18 witness: should_reload was set by an event handler call, the next
\* run() has exited with the sentinel, and the flag is still set.
C18_Witness ==
    /\ kind = "watchdog"
    /\ last.op = "run"
    /\ last.branch = "exit"
    /\ should_reload
    /\ ~loopClosed
    /\ exitCode = <<EXIT_CODE>>

\* The watches stored in the table: its values other than None.
TableWatches == { watches[p] : p \in { q \in DOMAIN watches : watches[q] # NoWatch } }

\* C19: after every run() of the watchdog reloader that has returned, the keys
\* of self.watches are the paths that run computed and are observable_paths,
\* and the watches scheduled with the observer are exactly the values of the
\* table that are not None, each the watch of its own key; schedule is never
\* called for a path whose watch is scheduled, and no watch of a path that is
\* no longer wanted stays scheduled.
C19_TableMatchesObserver ==
    /\ []((kind = "watchdog" /\ pc \in {"idle", "exited"}) =>
             /\ DOMAIN watches = paths
             /\ observable_paths = paths
             /\ observerWatches = TableWatches
             /\ \A p \in DOMAIN watches : watches[p] \in {NoWatch, Watch(p)})
    /\ [][ IsWatchRun =>
             /\ \A p \in last'.attempted : Watch(p) \notin observerWatches
             /\ \A p \in last'.unscheduled : Watch(p) \notin observerWatches'
             /\ observerWatches' = TableWatches'
         ]_vars

\* C19 witness: a run() has returned that left a None placeholder and a
\* scheduled watch in the table, after an earlier run() with other paths.
C19_Witness ==
    /\ kind = "watchdog"
    /\ last.op = "publish"
    /\ \E p \in DOMAIN watches : watches[p] = NoWatch
    /\ \E p \in DOMAIN watches : watches[p] = Watch(p)
    /\ everFailed \ DOMAIN watches # {}
    /\ observable_paths = DOMAIN watches

\* C20: with the loop open, an event handler call for an event of a .py, .pyc
\* or .pyo file under a directory whose watch is scheduled leaves should_reload
\* set, also when it comes between the watch loops of a run() and that run()'s
\* assignment of observable_paths.
C20_WatchedEventSetsFlag ==
    (/\ last.op = "callback"
     /\ ~loopClosed
     /\ \E f \in Range(last.event) : (IsSource(f) \/ IsCompiled(f)) /\ Watched(f))
        => should_reload

(***************************************************************************)
(* Claims about _find_common_roots                                         *)
(***************************************************************************)
\* C4: when _find_common_roots returns, every input path is equal to or nested
\* under some directory of the result, and no directory of the result is an
\* ancestor of another one (the filesystem root included among the inputs).
C4_CoversAndAntichain ==
    rootsPc = "done" =>
        /\ \A p \in rootsIn : \E d \in rv : Under(p, d)
        /\ \A d1, d2 \in rv : ~IsAncestor(d1, d2)

\* C5: for an input in which no path is an ancestor of another, the result of
\* _find_common_roots equals the input set, whatever order the sort produced.
C5_DisjointIsIdentity ==
    (rootsPc = "done" /\ \A p, q \in rootsIn : ~IsAncestor(p, q)) => rv = rootsIn

====
